---- MODULE Spec2Model ----
(***************************************************************************)
(* A model of analysis.py: extract_scalar and run_analysis (the per-ticker *)
(* loop, the aggregate step and the statistics step).                      *)
(*                                                                         *)
(* Floats are exact rationals n/d (d > 0, lowest terms) or NaN; rounding   *)
(* is not modelled.  A computation that can raise returns a record         *)
(* [exc, val]: exc = "" when it returned val, else the exception's name.   *)
(***************************************************************************)
EXTENDS Integers, Sequences, FiniteSets

VARIABLES
    pc,        \* position of run_analysis: prices, financials, aggregate, stats, done, crashed
    i,         \* 1-based index of the ticker being processed (enumerate's i + 1)
    results,   \* the results list (line 54)
    log,       \* the per-ticker progress lines printed so far (lines 58-99)
    obs,       \* what the fetches of the ticker in hand returned (cleared once the loop is left)
    df,        \* the DataFrame of lines 107-108
    csv,       \* mirsky_ratio_results.csv
    summary,   \* the lines printed by the final analysis (lines 104-125)
    stats,     \* the call of pearsonr (line 117)
    arg,       \* the argument of the function under test (SpecScalar, SpecGrowth)
    ret        \* its result

vars == <<pc, i, results, log, obs, df, csv, summary, stats, arg, ret>>

----------------------------------------------------------------------------
(* Bounds of the model *)

\* how many tickers of sp100_tickers a run goes through
NumTickers == 3
\* the most rows a price history has
MaxHist == 3
\* the most annual periods (columns) a financial statement has
MaxPeriods == 1
\* the longest Series handed to extract_scalar on its own
MaxSeriesLen == 2

(* Constants of the program *)

\* len(hist) < 2
MinObservations == 2
\* len(df) > 2
MinSample == 2

sp100_tickers ==
    << "AAPL", "MSFT", "GOOG", "AMZN", "NVDA", "META", "TSLA", "BRK-B", "LLY", "V", "JPM", "XOM",
       "WMT", "UNH", "MA", "PG", "JNJ", "MRK", "HD", "COST", "AVGO", "ORCL", "CVX", "CRM", "PEP",
       "KO", "ABBV", "ADBE", "BAC", "MCD", "CSCO", "ACN", "TMO", "PFE", "LIN", "NFLX", "ABT",
       "AMD", "DIS", "WFC", "CMCSA", "INTC", "VZ", "DHR", "NEE", "PM", "UPS", "TXN", "RTX",
       "HON", "AMGN", "UNP", "LOW", "COP", "IBM", "PLD", "SPGI", "CAT", "GS", "SBUX", "DE",
       "BLK", "ISRG", "LMT", "GE", "MDLZ", "BA", "TJX", "T", "AXP", "AMT", "C", "NOW", "PYPL",
       "SCHW", "ZTS", "ADI", "CVS", "DUK", "EOG", "SO", "MMC", "PNC", "TGT", "BDX", "GILD",
       "MO", "USB", "ADP", "CI", "CSX", "FISV", "GM", "HCA", "ITW", "KMB", "MD", "MMM", "PGR",
       "SHW", "SYK", "ANTM" >>

\* the tickers a run of the model goes through: the first NumTickers of the list
tickers == SubSeq(sp100_tickers, 1, NumTickers)

total_tickers == Len(tickers)

----------------------------------------------------------------------------
(* Floats *)

Abs(x) == IF x < 0 THEN -x ELSE x

RECURSIVE Gcd(_, _)
Gcd(a, b) == IF b = 0 THEN a ELSE Gcd(b, a % b)

NaN == [nan |-> TRUE, n |-> 0, d |-> 1]

\* the float n/d, d # 0, in lowest terms with a positive denominator
Frac(n, d) ==
    LET g == Gcd(Abs(n), Abs(d))
        s == IF d < 0 THEN -1 ELSE 1
    IN  [nan |-> FALSE, n |-> s * (n \div g), d |-> Abs(d) \div g]

Flt(n) == Frac(n, 1)

Ok(v) == [exc |-> "", val |-> v]

Raise(e) == [exc |-> e, val |-> NaN]

\* x == 0 (false for NaN)
FIsZero(x) == ~x.nan /\ x.n = 0

\* x > 0 (false for NaN)
FGtZero(x) == ~x.nan /\ x.n > 0

\* a > b (false when either is NaN)
FGt(a, b) == ~a.nan /\ ~b.nan /\ a.n * b.d > b.n * a.d

FSub(a, b) == IF a.nan \/ b.nan THEN NaN ELSE Frac(a.n * b.d - b.n * a.d, a.d * b.d)

FMul(a, b) == IF a.nan \/ b.nan THEN NaN ELSE Frac(a.n * b.n, a.d * b.d)

\* a / b on Python floats: ZeroDivisionError for a zero divisor, NaN propagates
FDiv(a, b) ==
    IF FIsZero(b) THEN Raise("ZeroDivisionError")
    ELSE IF a.nan \/ b.nan THEN Ok(NaN)
    ELSE Ok(Frac(a.n * b.d, a.d * b.n))

----------------------------------------------------------------------------
(* Python values handed to extract_scalar *)

\* a value that is not a Series: t is its type, f its numeric value where it has one
\*   "float"   a float (f may be NaN)
\*   "int"     an int that a float can hold
\*   "bigint"  an int beyond the largest float (such as 10**400)
\*   "numstr"  a string that float() parses (to f)
\*   "badstr"  a string that float() cannot parse
\*   "none"    None
Scalar(t, f) == [t |-> t, f |-> f, items |-> <<>>]

\* a pd.Series of the given items
Series(items) == [t |-> "series", f |-> NaN, items |-> items]

PyFloatOf(f) == Scalar("float", f)

\* the builtin float(value)
PyFloat(value) ==
    CASE value.t \in {"float", "int", "numstr"} -> Ok(value.f)
      [] value.t = "bigint" -> Raise("OverflowError")
      [] value.t = "badstr" -> Raise("ValueError")
      [] OTHER -> Raise("TypeError")

\* value.iloc[0]
ILocFirst(value) ==
    IF Len(value.items) = 0 THEN [exc |-> "IndexError", item |-> Scalar("none", NaN)]
    ELSE [exc |-> "", item |-> value.items[1]]

\* value.iloc[-1]
ILocLast(value) ==
    IF Len(value.items) = 0 THEN [exc |-> "IndexError", item |-> Scalar("none", NaN)]
    ELSE [exc |-> "", item |-> value.items[Len(value.items)]]

\* the exceptions extract_scalar catches
Caught == {"ValueError", "TypeError", "IndexError"}

extract_scalar(value) ==
    LET first == IF value.t = "series" THEN ILocFirst(value) ELSE [exc |-> "", item |-> value]
        r == IF first.exc # "" THEN Raise(first.exc) ELSE PyFloat(first.item)
    IN  IF r.exc \in Caught THEN Ok(Flt(0)) ELSE r

\* all sequences over S of length lo..hi
SeqsOf(S, lo, hi) == UNION { [1..k -> S] : k \in lo..hi }

----------------------------------------------------------------------------
(* What the data provider returns *)

\* closing prices a price history of a run holds
PipePrices == {NaN, Flt(100)}

\* closing prices the growth computation is tried on
Prices == {NaN, Flt(-100), Flt(0), Flt(100), Flt(120)}

\* values of a cell of the R&D row of a financial statement
RndCells == {Flt(0), Flt(50)}

\* values of a cell of the SG&A row (a missing value is NaN)
SgaCells == {NaN, Flt(0), Flt(50)}

RnD == "Research And Development"

SGnA == "Selling General And Administration"

\* the line items of a statement that the run looks at
LineItems == {RnD, SGnA}

\* stock.history(period="1y"): a DataFrame of `rows` rows, with or without a Close column
HistFrames(P) ==
    { [rows |-> Len(c), hasClose |-> TRUE, Close |-> c] : c \in SeqsOf(P, 0, MaxHist) }
    \cup { [rows |-> k, hasClose |-> FALSE, Close |-> <<>>] : k \in 0..MaxHist }

\* stock.financials: a DataFrame indexed by line item, one column per annual period
FinFrames ==
    { f \in [periods : 0..MaxPeriods, index : SUBSET LineItems,
             rnd : SeqsOf(RndCells, 0, MaxPeriods), sga : SeqsOf(SgaCells, 0, MaxPeriods)] :
        /\ Len(f.rnd) = (IF RnD \in f.index THEN f.periods ELSE 0)
        /\ Len(f.sga) = (IF SGnA \in f.index THEN f.periods ELSE 0) }

\* len(hist)
FrameLen(hist) == hist.rows

\* hist['Close']
CloseColumn(hist) ==
    IF hist.hasClose
    THEN [exc |-> "", item |-> Series([k \in 1..Len(hist.Close) |-> PyFloatOf(hist.Close[k])])]
    ELSE [exc |-> "KeyError", item |-> Series(<<>>)]

\* financials.empty
FrameEmpty(fin) == fin.periods = 0 \/ fin.index = {}

\* financials.loc[item]: the row of the item, a Series over the periods
Loc(fin, item) ==
    LET row == IF item = RnD THEN fin.rnd ELSE fin.sga
    IN  IF item \in fin.index
        THEN [exc |-> "", item |-> Series([k \in 1..Len(row) |-> PyFloatOf(row[k])])]
        ELSE [exc |-> "KeyError", item |-> Series(<<>>)]

----------------------------------------------------------------------------
(* The per-ticker computations of run_analysis *)

\* len(hist) < 2
TooFewPrices(hist) == FrameLen(hist) < MinObservations

\* x >= 0 (false for NaN)
FGeZero(x) == ~x.nan /\ x.n >= 0

\* the guard written as start_price >= 0
MarketGrowthNonNegative(start_price, end_price) ==
    IF FGeZero(start_price)
    THEN LET q == FDiv(FSub(end_price, start_price), start_price)
         IN  IF q.exc # "" THEN q ELSE Ok(FMul(q.val, Flt(100)))
    ELSE Ok(Flt(0))

\* ((end_price - start_price) / start_price) * 100 if start_price > 0 else 0
MarketGrowth(start_price, end_price) ==
    IF FGtZero(start_price)
    THEN LET q == FDiv(FSub(end_price, start_price), start_price)
         IN  IF q.exc # "" THEN q ELSE Ok(FMul(q.val, Flt(100)))
    ELSE Ok(Flt(0))

\* lines 69-71: start_price, end_price and market_growth of a price history
GrowthOf(hist) ==
    LET close == CloseColumn(hist)
        first == ILocFirst(close.item)
        last  == ILocLast(close.item)
        start_price == extract_scalar(first.item)
        end_price   == extract_scalar(last.item)
    IN  IF close.exc # "" THEN Raise(close.exc)
        ELSE IF first.exc # "" THEN Raise(first.exc)
        ELSE IF start_price.exc # "" THEN start_price
        ELSE IF last.exc # "" THEN Raise(last.exc)
        ELSE IF end_price.exc # "" THEN end_price
        ELSE MarketGrowth(start_price.val, end_price.val)

\* lines 65-71 on a price history that was returned
PriceStep(hist) ==
    IF TooFewPrices(hist)
    THEN [status |-> "SKIPPED", detail |-> "Insufficient price data", growth |-> NaN]
    ELSE LET g == GrowthOf(hist)
         IN  IF g.exc # ""
             THEN [status |-> "ERROR", detail |-> g.exc, growth |-> NaN]
             ELSE [status |-> "continue", detail |-> "", growth |-> g.val]

\* only financials.empty is looked at
MissingFinancialsEmptyOnly(fin) == FrameEmpty(fin)

\* financials.empty or either line item not in financials.index
MissingFinancials(fin) ==
    FrameEmpty(fin) \/ RnD \notin fin.index \/ SGnA \notin fin.index

\* the zero check left out
SgaIsZeroNever(sga) == FALSE

\* sga == 0
SgaIsZero(sga) == FIsZero(sga)

\* rnd / sga
MirskyRatio(rnd, sga) == FDiv(rnd, sga)

----------------------------------------------------------------------------
(* run_analysis *)

\* nothing fetched yet for the current ticker
NoObs ==
    [prices |-> "notfetched", nobs |-> 0, growth |-> NaN,
     fin |-> "notfetched", finEmpty |-> FALSE, hasRnd |-> FALSE, hasSga |-> FALSE,
     extracted |-> FALSE, sga |-> NaN]

NoCsv == [written |-> FALSE, rows |-> <<>>]

NoStats == [called |-> FALSE, x |-> <<>>, y |-> <<>>]

NoArg == Scalar("none", NaN)

NoRet == [status |-> "pending", detail |-> "", val |-> NaN]

Init ==
    /\ pc = IF total_tickers = 0 THEN "aggregate" ELSE "prices"
    /\ i = 1
    /\ results = <<>>
    /\ log = <<>>
    /\ obs = NoObs
    /\ df = <<>>
    /\ csv = NoCsv
    /\ summary = <<>>
    /\ stats = NoStats
    /\ arg = NoArg
    /\ ret = NoRet

\* a progress line: "Processing (i/N): TICKER ... OK | SKIPPED (reason) | ERROR (e)"
Line(status, detail) ==
    [n |-> i, ticker |-> tickers[i], status |-> status, detail |-> detail]

\* the loop steps over a ticker
ContinueSkipping ==
    /\ i' = i + 2
    /\ pc' = IF i + 1 < total_tickers THEN "prices" ELSE "aggregate"

\* the for loop goes on to the next ticker, or to the final analysis after the last
Continue ==
    /\ i' = i + 1
    /\ pc' = IF i < total_tickers THEN "prices" ELSE "aggregate"

\* no handler: the exception leaves run_analysis
ExceptPropagates(e, o) ==
    /\ pc' = "crashed"
    /\ obs' = o
    /\ UNCHANGED <<i, results, log>>

\* except Exception as e: print ERROR, continue
Except(e, o) ==
    /\ log' = Append(log, Line("ERROR", e))
    /\ results' = results
    /\ obs' = o
    /\ Continue

\* print SKIPPED (reason), continue
Skip(reason, o) ==
    /\ log' = Append(log, Line("SKIPPED", reason))
    /\ results' = results
    /\ obs' = o
    /\ Continue

\* results.append({...}), print OK
Accept(record, o) ==
    /\ results' = Append(results, record)
    /\ log' = Append(log, Line("OK", ""))
    /\ obs' = o
    /\ Continue

\* lines 58-71: the price history of ticker i is fetched and its growth computed
FetchPrices ==
    /\ pc = "prices"
    /\ \/ Except("ProviderError", [NoObs EXCEPT !.prices = "raised"])
       \/ \E hist \in HistFrames(PipePrices) :
            LET o == [NoObs EXCEPT !.prices = "returned", !.nobs = FrameLen(hist)]
                r == PriceStep(hist)
            IN  CASE r.status = "SKIPPED" -> Skip(r.detail, o)
                  [] r.status = "ERROR" -> Except(r.detail, o)
                  [] OTHER ->
                        /\ obs' = [o EXCEPT !.growth = r.growth]
                        /\ pc' = "financials"
                        /\ UNCHANGED <<i, results, log>>
    /\ UNCHANGED <<df, csv, summary, stats, arg, ret>>

\* lines 73-96: the financial statement of ticker i is fetched and its ratio computed
FetchFinancials ==
    /\ pc = "financials"
    /\ \/ Except("ProviderError", [obs EXCEPT !.fin = "raised"])
       \/ \E fin \in FinFrames :
            LET o == [obs EXCEPT !.fin = "returned", !.finEmpty = FrameEmpty(fin),
                                 !.hasRnd = RnD \in fin.index, !.hasSga = SGnA \in fin.index]
                rndRow == Loc(fin, RnD)
                sgaRow == Loc(fin, SGnA)
                rnd == IF rndRow.exc # "" THEN Raise(rndRow.exc) ELSE extract_scalar(rndRow.item)
                sga == IF sgaRow.exc # "" THEN Raise(sgaRow.exc) ELSE extract_scalar(sgaRow.item)
                o2 == [o EXCEPT !.extracted = TRUE, !.sga = sga.val]
                mirsky_ratio == MirskyRatio(rnd.val, sga.val)
            IN  IF MissingFinancials(fin) THEN Skip("Missing required financial data", o)
                ELSE IF rnd.exc # "" THEN Except(rnd.exc, o)
                ELSE IF sga.exc # "" THEN Except(sga.exc, o)
                ELSE IF SgaIsZero(sga.val) THEN Skip("SG&A is zero", o2)
                ELSE IF mirsky_ratio.exc # "" THEN Except(mirsky_ratio.exc, o2)
                ELSE Accept([Ticker |-> tickers[i],
                             Mirsky_Ratio |-> mirsky_ratio.val,
                             Market_Growth_1Y_Percent |-> obs.growth,
                             RnD |-> rnd.val,
                             SGnA |-> sga.val], o2)
    /\ UNCHANGED <<df, csv, summary, stats, arg, ret>>

\* the check for an empty list left out
NoResultsNever(rs) == FALSE

\* not results
NoResults(rs) == rs = <<>>

\* a row holds a missing value
HasNa(row) ==
    row.Mirsky_Ratio.nan \/ row.Market_Growth_1Y_Percent.nan \/ row.RnD.nan \/ row.SGnA.nan

\* no row is dropped
DropNaNothing(rows) == rows

RECURSIVE DropNa(_)
\* pd.DataFrame(results).dropna(): the rows without a missing value, in order
DropNa(rows) ==
    IF rows = <<>> THEN <<>>
    ELSE IF HasNa(Head(rows)) THEN DropNa(Tail(rows))
    ELSE <<Head(rows)>> \o DropNa(Tail(rows))

\* the bijections of 1..n
Bijections(n) == { p \in [1..n -> 1..n] : \A a, b \in 1..n : a # b => p[a] # p[b] }

\* rows are in descending order of Mirsky_Ratio
Descending(rows) ==
    \A k \in 1..(Len(rows) - 1) : ~FGt(rows[k + 1].Mirsky_Ratio, rows[k].Mirsky_Ratio)

\* rows are in ascending order of Mirsky_Ratio
Ascending(rows) ==
    \A k \in 1..(Len(rows) - 1) : ~FGt(rows[k].Mirsky_Ratio, rows[k + 1].Mirsky_Ratio)

\* the sort with ascending left at its default
SortValuesAscending(rows) ==
    { s \in { [k \in 1..Len(rows) |-> rows[p[k]]] : p \in Bijections(Len(rows)) } :
        Ascending(s) }

\* df.sort_values(by='Mirsky_Ratio', ascending=False).reset_index(drop=True): the
\* default kind is quicksort, which is not stable, so rows of equal ratio may come
\* out in any order; every outcome is a descending rearrangement of the rows
SortValues(rows) ==
    { s \in { [k \in 1..Len(rows) |-> rows[p[k]]] : p \in Bijections(Len(rows)) } :
        Descending(s) }

\* lines 103-113: nothing collected, or the frame is cleaned, sorted and written
Aggregate ==
    /\ pc = "aggregate"
    /\ IF NoResults(results)
       THEN /\ summary' = Append(summary, [text |-> "No data collected. Cannot perform analysis.", n |-> 0])
            /\ pc' = "done"
            /\ UNCHANGED <<df, csv>>
       ELSE \E sorted \in SortValues(DropNa(results)) :
                /\ df' = sorted
                /\ csv' = [written |-> TRUE, rows |-> sorted]
                /\ summary' = Append(summary, [text |-> "Analysis complete. Detailed results saved", n |-> 0])
                /\ pc' = "stats"
    /\ obs' = NoObs
    /\ UNCHANGED <<i, results, log, stats, arg, ret>>

\* the test written as len(df) >= 2
EnoughDataFromTwo(d) == Len(d) >= MinSample

\* len(df) > 2
EnoughData(d) == Len(d) > MinSample

\* lines 116-125: the correlation is computed and printed, or the notice is
Statistics ==
    /\ pc = "stats"
    /\ IF EnoughData(df)
       THEN /\ stats' = [called |-> TRUE,
                         x |-> [k \in 1..Len(df) |-> df[k].Mirsky_Ratio],
                         y |-> [k \in 1..Len(df) |-> df[k].Market_Growth_1Y_Percent]]
            /\ summary' = summary \o << [text |-> "--- Statistical Results ---", n |-> 0],
                                        [text |-> "Sample Size (n)", n |-> Len(df)],
                                        [text |-> "Correlation Coefficient (r)", n |-> 0],
                                        [text |-> "p-value", n |-> 0] >>
       ELSE /\ stats' = stats
            /\ summary' = Append(summary, [text |-> "--- Insufficient data for statistical analysis ---", n |-> 0])
    /\ pc' = "done"
    /\ UNCHANGED <<i, results, log, obs, df, csv, arg, ret>>

Next == FetchPrices \/ FetchFinancials \/ Aggregate \/ Statistics

Spec == Init /\ [][Next]_vars

\* the run is sequential and every call returns or raises: a step that can be taken is taken
FairSpec == Spec /\ WF_vars(Next)

----------------------------------------------------------------------------
(* extract_scalar on its own: one call on each kind of argument *)

\* the values that are not a Series
ScalarValues ==
    { PyFloatOf(NaN), PyFloatOf(Flt(0)), PyFloatOf(Flt(50)), Scalar("int", Flt(7)),
      Scalar("bigint", NaN), Scalar("numstr", Flt(3)), Scalar("badstr", NaN),
      Scalar("none", NaN) }

\* the arguments tried: a bare value, or a Series of up to MaxSeriesLen of them
ScalarArgs == ScalarValues \cup { Series(items) : items \in SeqsOf(ScalarValues, 0, MaxSeriesLen) }

InitScalar ==
    /\ pc = "extract_scalar"
    /\ i = 1
    /\ results = <<>>
    /\ log = <<>>
    /\ obs = NoObs
    /\ df = <<>>
    /\ csv = NoCsv
    /\ summary = <<>>
    /\ stats = NoStats
    /\ arg \in ScalarArgs
    /\ ret = NoRet

\* the call extract_scalar(arg) returns or raises
CallExtractScalar ==
    /\ pc = "extract_scalar"
    /\ LET r == extract_scalar(arg)
       IN  ret' = [status |-> IF r.exc = "" THEN "returned" ELSE "raised",
                   detail |-> r.exc, val |-> r.val]
    /\ pc' = "extract_scalar_done"
    /\ UNCHANGED <<i, results, log, obs, df, csv, summary, stats, arg>>

NextScalar == CallExtractScalar

SpecScalar == InitScalar /\ [][NextScalar]_vars

----------------------------------------------------------------------------
(* Lines 65-71 on their own: one price history, its check and its growth *)

InitGrowth ==
    /\ pc = "growth"
    /\ i = 1
    /\ results = <<>>
    /\ log = <<>>
    /\ obs = NoObs
    /\ df = <<>>
    /\ csv = NoCsv
    /\ summary = <<>>
    /\ stats = NoStats
    /\ arg \in HistFrames(Prices)
    /\ ret = NoRet

\* lines 65-71 run on the price history arg
CallPriceStep ==
    /\ pc = "growth"
    /\ LET r == PriceStep(arg)
       IN  ret' = [status |-> r.status, detail |-> r.detail, val |-> r.growth]
    /\ pc' = "growth_done"
    /\ UNCHANGED <<i, results, log, obs, df, csv, summary, stats, arg>>

NextGrowth == CallPriceStep

SpecGrowth == InitGrowth /\ [][NextGrowth]_vars

----------------------------------------------------------------------------
(* Properties *)

Last(s) == s[Len(s)]

\* the loop has not been left, so obs is about the ticker of the last progress line
InLoop == pc \in {"prices", "financials", "aggregate"}

\* a progress line was printed by the step, and it reads status
Printed(status) ==
    /\ Len(log') = Len(log) + 1
    /\ Last(log').status = status

\* every ticker of the list has its progress line, in list order
AllProcessed ==
    /\ Len(log) = total_tickers
    /\ \A k \in 1..Len(log) : log[k].ticker = tickers[k] /\ log[k].n = k

\* C1: a ticker that raises (in either fetch or in a computation) does not abort the
\* run and leaves the results list as it was, and every ticker after it is still
\* processed
C1_FailureIsolation ==
    /\ [](pc # "crashed")
    /\ [][Printed("ERROR") => results' = results /\ pc' \in {"prices", "aggregate"}]_vars
    /\ [][pc = "prices" => results' = results]_vars
    /\ [](pc \in {"aggregate", "stats", "done"} => AllProcessed)

\* C1 witness: the second ticker raised, the first and the third were accepted
C1_Witness ==
    /\ Len(log) = 3
    /\ log[1].status = "OK" /\ log[2].status = "ERROR" /\ log[3].status = "OK"
    /\ Len(results) = 2
    /\ results[1].Ticker = tickers[1] /\ results[2].Ticker = tickers[3]

\* the step appended one record to results, for the ticker in hand
Appended ==
    /\ Len(results') = Len(results) + 1
    /\ SubSeq(results', 1, Len(results)) = results
    /\ Last(results').Ticker = tickers[i]

\* C2: results only ever grows by a record of a ticker whose history had two or more
\* rows, whose statement was non-empty and held both line items and whose extracted
\* SG&A is not zero; no record has a zero SG&A and no division by zero is ever made
C2_RetentionInvariant ==
    /\ [][results' # results =>
            /\ Appended
            /\ obs'.prices = "returned" /\ obs'.nobs >= 2
            /\ obs'.fin = "returned" /\ ~obs'.finEmpty /\ obs'.hasRnd /\ obs'.hasSga
            /\ obs'.extracted /\ ~FIsZero(obs'.sga)
            /\ Last(results').SGnA = obs'.sga]_vars
    /\ [](\A k \in 1..Len(results) : ~FIsZero(results[k].SGnA))
    /\ [](\A k \in 1..Len(log) : log[k].detail # "ZeroDivisionError")

\* C2 witness: a record is retained next to a ticker rejected for a zero SG&A
C2_Witness ==
    /\ InLoop /\ Len(results) = 1 /\ Len(log) = 2
    /\ log[2].detail = "SG&A is zero"
    /\ obs.extracted /\ FIsZero(obs.sga)

NoDataLine == [text |-> "No data collected. Cannot perform analysis.", n |-> 0]

SavedLine == [text |-> "Analysis complete. Detailed results saved", n |-> 0]

InsufficientLine == [text |-> "--- Insufficient data for statistical analysis ---", n |-> 0]

\* C3: with no record accepted the run ends on the "no data collected" line, with no
\* CSV written and no statistic computed or printed; with a record accepted the CSV is
\* written
C3_EmptyAggregate ==
    /\ (pc = "done" /\ results = <<>>) =>
            summary = <<NoDataLine>> /\ ~csv.written /\ ~stats.called
    /\ (pc \in {"stats", "done"} /\ results # <<>>) =>
            csv.written /\ summary # <<>> /\ summary[1] = SavedLine
    /\ pc = "stats" => results # <<>>

\* C3 witness: every ticker was processed, none accepted, and the run has ended
C3_Witness ==
    /\ pc = "done" /\ results = <<>> /\ Len(log) = total_tickers
    /\ summary = <<NoDataLine>>

\* the line "Sample Size (n): <n>" is in the summary
SampleSizePrinted(n) ==
    \E k \in 1..Len(summary) : summary[k] = [text |-> "Sample Size (n)", n |-> n]

\* C4: the correlation is computed and printed exactly when three or more rows remain
\* after the missing values are dropped, else the notice is printed; the CSV is
\* written before either; the sample size printed is the number of rows of the CSV
C4_StatisticsThreshold ==
    /\ pc = "stats" => csv.written /\ csv.rows = df /\ ~stats.called /\ summary = <<SavedLine>>
    /\ stats.called => csv.written
    /\ (pc = "done" /\ csv.written) =>
            /\ stats.called <=> Len(csv.rows) >= 3
            /\ stats.called =>
                    /\ SampleSizePrinted(Len(csv.rows))
                    /\ Len(stats.x) = Len(csv.rows) /\ Len(stats.y) = Len(csv.rows)
                    /\ InsufficientLine \notin {summary[k] : k \in 1..Len(summary)}
            /\ ~stats.called => summary = <<SavedLine, InsufficientLine>>

\* C4 witness: three rows are written, then the test is run and its sample size printed
C4_Witness ==
    /\ pc = "done" /\ csv.written /\ Len(csv.rows) = 3
    /\ stats.called /\ SampleSizePrinted(3)

\* where a ticker stands in the list
TickerIndex(t) == CHOOSE k \in 1..Len(tickers) : tickers[k] = t

\* the rows are those of `of`, each once
Rearranges(rows, of) ==
    /\ Len(rows) = Len(of)
    /\ {rows[k] : k \in 1..Len(rows)} = {of[k] : k \in 1..Len(of)}

\* rows of equal ratio stand in the order of their tickers in the list
TiesInInsertionOrder(rows) ==
    \A k, l \in 1..Len(rows) :
        (k < l /\ rows[k].Mirsky_Ratio = rows[l].Mirsky_Ratio) =>
            TickerIndex(rows[k].Ticker) < TickerIndex(rows[l].Ticker)

\* C5 as stated: the rows written are the records left after the missing values are
\* dropped, in descending order of ratio, rows of equal ratio in insertion order
C5_StableDescending ==
    csv.written =>
        /\ Rearranges(csv.rows, DropNa(results))
        /\ Descending(csv.rows)
        /\ TiesInInsertionOrder(csv.rows)

\* C5 as amended: the rows written are the records left after the missing values are
\* dropped, in descending order of ratio (the order of rows of equal ratio is open)
C5_Descending ==
    csv.written =>
        /\ Rearranges(csv.rows, DropNa(results))
        /\ \A k, l \in 1..Len(csv.rows) :
                k < l => ~FGt(csv.rows[l].Mirsky_Ratio, csv.rows[k].Mirsky_Ratio)

\* C5 witness: three rows written, accepted in ascending order of ratio with a tie
C5_Witness ==
    /\ csv.written /\ Len(csv.rows) = 3 /\ Len(results) = 3
    /\ FGt(results[3].Mirsky_Ratio, results[1].Mirsky_Ratio)
    /\ results[1].Mirsky_Ratio = results[2].Mirsky_Ratio
    /\ csv.rows[1] = results[3]

\* the tickers whose progress line reads OK
AcceptedTickers == { log[k].ticker : k \in {j \in 1..Len(log) : log[j].status = "OK"} }

\* the tickers of the rows written
WrittenTickers == { csv.rows[k].Ticker : k \in 1..Len(csv.rows) }

\* C6 as stated: the CSV holds one row for every accepted ticker and no other
C6_OneRowPerAccepted ==
    csv.written =>
        /\ WrittenTickers = AcceptedTickers
        /\ Len(csv.rows) = Cardinality(AcceptedTickers)

\* the accepted tickers whose record holds no missing value
CompleteTickers == { results[k].Ticker : k \in {j \in 1..Len(results) : ~HasNa(results[j])} }

\* C6 as amended: the CSV, and the sample of the statistic, hold one row for every
\* accepted ticker whose record has no missing value (NaN) in any field, and no other
C6_OneRowPerCompleteAccepted ==
    /\ {results[k].Ticker : k \in 1..Len(results)} = AcceptedTickers
    /\ csv.written =>
        /\ WrittenTickers = CompleteTickers
        /\ Len(csv.rows) = Cardinality(CompleteTickers)
        /\ \A k \in 1..Len(csv.rows) : \E j \in 1..Len(results) : csv.rows[k] = results[j]
    /\ stats.called => Len(stats.x) = Cardinality(CompleteTickers)

\* C6 witness: of three accepted tickers one has a missing value and is not written
C6_Witness ==
    /\ pc = "done" /\ csv.written
    /\ Cardinality(AcceptedTickers) = 3
    /\ Cardinality(WrittenTickers) = 2

\* the argument is a number, as a float or an int
IsNumber(v) == v.t \in {"float", "int", "bigint"}

\* C7 as stated: extract_scalar never raises; a bare number comes back as it is, a
\* non-empty Series gives the numeric value of its first element, and an empty Series,
\* an unconvertible string and None give 0.0
C7_ExtractScalarContract ==
    pc = "extract_scalar_done" =>
        /\ ret.status = "returned"
        /\ IsNumber(arg) => ret.val = arg.f
        /\ (arg.t = "series" /\ arg.items # <<>> /\ IsNumber(arg.items[1])) =>
                ret.val = arg.items[1].f
        /\ (arg.t = "series" /\ arg.items = <<>>) => ret.val = Flt(0)
        /\ arg.t \in {"badstr", "none"} => ret.val = Flt(0)

\* the contract of C7 on the numbers a float can hold: what is left of it once the
\* ints beyond the largest float are set aside
C7_ContractWithinFloatRange ==
    pc = "extract_scalar_done" =>
        /\ ret.status = "raised" =>
                \/ arg.t = "bigint"
                \/ arg.t = "series" /\ arg.items # <<>> /\ arg.items[1].t = "bigint"
        /\ ret.status = "raised" => ret.detail = "OverflowError"
        /\ (IsNumber(arg) /\ arg.t # "bigint") => ret.val = arg.f
        /\ (arg.t = "series" /\ arg.items # <<>> /\ arg.items[1].t \in {"float", "int"}) =>
                ret.val = arg.items[1].f
        /\ (arg.t = "series" /\ arg.items = <<>>) => ret.val = Flt(0)
        /\ arg.t \in {"badstr", "none"} => ret.val = Flt(0)

\* the first and the last close of the price history under test
StartClose == arg.Close[1]

EndClose == arg.Close[Len(arg.Close)]

\* g is (e - s) / s * 100, for s # 0 (NaN when e or s is)
IsGrowth(g, s, e) ==
    IF s.nan \/ e.nan THEN g.nan
    ELSE ~g.nan /\ g.n * s.n * e.d = (e.n * s.d - s.n * e.d) * 100 * g.d

\* C8: a history of two or more closes gives (end - start) / start * 100 when the
\* start close is above zero and 0 otherwise, and never divides by a zero start;
\* start 100 and end 120 give 20
C8_GrowthCalculation ==
    (pc = "growth_done" /\ arg.hasClose /\ arg.rows >= 2) =>
        /\ ret.status = "continue"
        /\ ret.detail # "ZeroDivisionError"
        /\ FGtZero(StartClose) => IsGrowth(ret.val, StartClose, EndClose)
        /\ ~FGtZero(StartClose) => ret.val = Flt(0)
        /\ (StartClose = Flt(100) /\ EndClose = Flt(120)) => ret.val = Flt(20)

\* C8 witness: three closes from 100 to 120 gave a growth of 20
C8_Witness ==
    /\ pc = "growth_done" /\ arg.hasClose /\ arg.rows = 3
    /\ StartClose = Flt(100) /\ arg.Close[2] = Flt(0) /\ EndClose = Flt(120)
    /\ ret.status = "continue" /\ ret.val = Flt(20)

\* C9: the tickers are processed one at a time, each once and in list order, and
\* whatever their outcomes the run reaches the final analysis and ends normally
C9_Termination ==
    /\ [](Len(log) = i - 1 /\ i <= total_tickers + 1)
    /\ [](\A k \in 1..Len(log) : log[k].ticker = tickers[k] /\ log[k].n = k)
    /\ [](pc \in {"prices", "financials"} => i <= total_tickers)
    /\ [](pc = "financials" => obs.prices = "returned" /\ obs.fin = "notfetched")
    /\ [](pc \in {"aggregate", "stats", "done"} => AllProcessed)
    /\ [](pc # "crashed")
    /\ [][Len(log') \in {Len(log), Len(log) + 1}]_vars
    /\ <>(pc = "done")

\* C9 witness: the run ended after one ticker accepted, one skipped and one in error
C9_Witness ==
    /\ pc = "done" /\ Len(log) = total_tickers
    /\ {log[k].status : k \in 1..Len(log)} = {"OK", "SKIPPED", "ERROR"}

Reasons == {"Insufficient price data", "Missing required financial data", "SG&A is zero"}

\* C10: every ticker ends in one outcome, and the checks come in this order: fewer
\* than two prices is "insufficient price data" whatever the statement holds (it is
\* not fetched); an empty statement or a missing line item is "missing required
\* financial data"; an SG&A that extracts to zero is "SG&A is zero"
C10_RejectionPrecedence ==
    /\ Len(log) = i - 1
    /\ \A k \in 1..Len(log) :
            /\ log[k].status \in {"OK", "SKIPPED", "ERROR"}
            /\ log[k].status = "SKIPPED" <=> log[k].detail \in Reasons
    /\ (InLoop /\ pc # "financials" /\ log # <<>>) =>
            /\ (obs.prices = "returned" /\ obs.nobs < 2) =>
                    /\ Last(log).status = "SKIPPED"
                    /\ Last(log).detail = "Insufficient price data"
                    /\ obs.fin = "notfetched"
            /\ (obs.fin = "returned" /\ (obs.finEmpty \/ ~obs.hasRnd \/ ~obs.hasSga)) =>
                    /\ obs.nobs >= 2
                    /\ Last(log).status = "SKIPPED"
                    /\ Last(log).detail = "Missing required financial data"
            /\ (obs.fin = "returned" /\ ~obs.finEmpty /\ obs.hasRnd /\ obs.hasSga) =>
                    /\ obs.extracted
                    /\ FIsZero(obs.sga) =>
                            /\ Last(log).status = "SKIPPED"
                            /\ Last(log).detail = "SG&A is zero"
                    /\ ~FIsZero(obs.sga) => Last(log).status = "OK"

\* C10 witness: two or more prices, both line items, an SG&A of zero: "SG&A is zero"
C10_Witness ==
    /\ InLoop /\ pc # "financials" /\ log # <<>>
    /\ obs.nobs >= 2 /\ obs.fin = "returned" /\ obs.hasRnd /\ obs.hasSga
    /\ obs.extracted /\ FIsZero(obs.sga)
    /\ Last(log).detail = "SG&A is zero"

====
